---- MODULE Spec2Model ----
(***************************************************************************)
(* Skill installer of PiCrust (AgentFiles/extensions, the install_skill,   *)
(* uninstall_skill and list_skills tools).  Strings are sequences of       *)
(* one-character strings, so that path normalisation, prefix tests and     *)
(* the regular expressions of the source are computed, not assumed.        *)
(***************************************************************************)
EXTENDS Integers, Sequences, FiniteSets, TLC

(* ------------------------------------------------------------------ *)
(* Bounds of the model                                                  *)
(* ------------------------------------------------------------------ *)
MaxCalls == 2
MaxCandParts == 4
MaxChainCalls == 3
MaxTextParts == 3

(* ------------------------------------------------------------------ *)
(* JavaScript string primitives                                         *)
(* ------------------------------------------------------------------ *)
Lower == {"a","b","c","d","e","f","g","h","i","j","k","l","m","n","o","p","q","r","s","t","u","v","w","x","y","z"}
Upper == {"A","B","C","D","E","F","G","H","I","J","K","L","M","N","O","P","Q","R","S","T","U","V","W","X","Y","Z"}
Digit == {"0","1","2","3","4","5","6","7","8","9"}
\* \w of the regular expressions
WordChar == Lower \cup Upper \cup Digit \cup {"_"}
\* \s of the regular expressions, as far as the inputs use it
SpaceChar == {" ", "\n", "\t"}
\* the backtick character (a string literal of this notation cannot hold it)
Backtick == "BACKTICK"

Take(s, n) == SubSeq(s, 1, IF n < Len(s) THEN n ELSE Len(s))
Drop(s, n) == SubSeq(s, n + 1, Len(s))

\* String.prototype.startsWith
StartsWith(s, pre) == Len(pre) <= Len(s) /\ SubSeq(s, 1, Len(pre)) = pre

\* String.prototype.includes
Includes(s, sub) == \E i \in 1..(Len(s) - Len(sub) + 1) : SubSeq(s, i, i + Len(sub) - 1) = sub

\* String.prototype.indexOf, 0-based, -1 when absent
IndexOf(s, sub) ==
  LET hits == {i \in 1..(Len(s) - Len(sub) + 1) : SubSeq(s, i, i + Len(sub) - 1) = sub}
  IN IF hits = {} THEN -1 ELSE (CHOOSE i \in hits : \A j \in hits : i <= j) - 1

\* String.prototype.lastIndexOf, 0-based, -1 when absent
LastIndexOf(s, sub) ==
  LET hits == {i \in 1..(Len(s) - Len(sub) + 1) : SubSeq(s, i, i + Len(sub) - 1) = sub}
  IN IF hits = {} THEN -1 ELSE (CHOOSE i \in hits : \A j \in hits : i >= j) - 1

\* String.prototype.trim
RECURSIVE TrimLeft(_)
TrimLeft(s) == IF s # <<>> /\ Head(s) \in SpaceChar THEN TrimLeft(Tail(s)) ELSE s
RECURSIVE TrimRight(_)
TrimRight(s) == IF s # <<>> /\ s[Len(s)] \in SpaceChar THEN TrimRight(SubSeq(s, 1, Len(s) - 1)) ELSE s
Trim(s) == TrimRight(TrimLeft(s))

\* String.prototype.split on a one-character separator: empty pieces are kept
RECURSIVE SplitFrom(_, _, _)
SplitFrom(s, sep, cur) ==
  IF s = <<>> THEN <<cur>>
  ELSE IF Head(s) = sep THEN <<cur>> \o SplitFrom(Tail(s), sep, <<>>)
  ELSE SplitFrom(Tail(s), sep, Append(cur, Head(s)))
Split(s, sep) == SplitFrom(s, sep, <<>>)

\* Array.prototype.pop on the result of split: the last piece
Last(seq) == seq[Len(seq)]

\* Array.prototype.join with a one-character separator
RECURSIVE JoinWith(_, _)
JoinWith(parts, sep) ==
  IF parts = <<>> THEN <<>>
  ELSE IF Len(parts) = 1 THEN parts[1]
  ELSE parts[1] \o <<sep>> \o JoinWith(Tail(parts), sep)

(* ------------------------------------------------------------------ *)
(* node:path, POSIX flavour                                             *)
(* ------------------------------------------------------------------ *)
pathSep == "/"
Dot == <<".">>
DotDot == <<".", ".">>

IsAbsolute(p) == p # <<>> /\ p[1] = pathSep

\* normalizeString: drop empty and "." segments, let ".." remove the segment
\* before it; above the root of an absolute path ".." is dropped, in a
\* relative path it is kept
RECURSIVE NormSegs(_, _, _)
NormSegs(segs, acc, allowAbove) ==
  IF segs = <<>> THEN acc
  ELSE LET h == Head(segs) IN
    IF h = <<>> \/ h = Dot THEN NormSegs(Tail(segs), acc, allowAbove)
    ELSE IF h = DotDot THEN
      IF acc # <<>> /\ acc[Len(acc)] # DotDot
        THEN NormSegs(Tail(segs), SubSeq(acc, 1, Len(acc) - 1), allowAbove)
      ELSE IF allowAbove THEN NormSegs(Tail(segs), Append(acc, h), allowAbove)
      ELSE NormSegs(Tail(segs), acc, allowAbove)
    ELSE NormSegs(Tail(segs), Append(acc, h), allowAbove)

\* path.normalize: a trailing separator survives
pathNormalize(p) ==
  IF p = <<>> THEN Dot
  ELSE LET abs == IsAbsolute(p)
           trail == p[Len(p)] = pathSep
           body == JoinWith(NormSegs(Split(p, pathSep), <<>>, ~abs), pathSep)
       IN IF body = <<>>
            THEN (IF abs THEN <<pathSep>> ELSE IF trail THEN <<".", pathSep>> ELSE Dot)
            ELSE (IF abs THEN <<pathSep>> ELSE <<>>) \o body \o (IF trail THEN <<pathSep>> ELSE <<>>)

\* path.join of two arguments: empty arguments are skipped
pathJoin(a, b) ==
  IF a = <<>> /\ b = <<>> THEN Dot
  ELSE IF b = <<>> THEN pathNormalize(a)
  ELSE IF a = <<>> THEN pathNormalize(b)
  ELSE pathNormalize(a \o <<pathSep>> \o b)

\* path.resolve(base, rel) for an absolute base: an absolute rel replaces the
\* base; the result is normalised and has no trailing separator
pathResolve(base, rel) ==
  LET raw == IF IsAbsolute(rel) THEN rel
             ELSE IF rel = <<>> THEN base
             ELSE base \o <<pathSep>> \o rel
  IN <<pathSep>> \o JoinWith(NormSegs(Split(raw, pathSep), <<>>, FALSE), pathSep)

\* path.dirname: trailing separators are ignored
RECURSIVE StripTrail(_)
StripTrail(p) ==
  IF Len(p) > 1 /\ p[Len(p)] = pathSep THEN StripTrail(SubSeq(p, 1, Len(p) - 1)) ELSE p
pathDirname(p) ==
  LET q == StripTrail(p)
      k == LastIndexOf(q, <<pathSep>>)
  IN IF q = <<>> THEN Dot
     ELSE IF k = -1 THEN Dot
     ELSE IF k = 0 THEN <<pathSep>>
     ELSE StripTrail(SubSeq(q, 1, k))

(* ------------------------------------------------------------------ *)
(* The extension's closure state and pure helpers                       *)
(* ------------------------------------------------------------------ *)
\* process.cwd() of the host
cwd == <<"/", "w">>
\* const skillsDir = path.resolve("skills")
skillsDir == pathResolve(cwd, <<"s","k","i","l","l","s">>)

\* isSafePath with the separator forgotten: a bare prefix test
isSafePathNoSep(skillDir, relativePath) ==
  LET resolved == pathResolve(skillDir, relativePath)
  IN StartsWith(resolved, skillDir) \/ resolved = skillDir

\* isSafePath
isSafePath(skillDir, relativePath) ==
  LET resolved == pathResolve(skillDir, relativePath)
  IN StartsWith(resolved, skillDir \o <<pathSep>>) \/ resolved = skillDir


\* getBaseUrl
getBaseUrl(url) ==
  LET lastSlash == LastIndexOf(url, <<"/">>)
  IN IF lastSlash > IndexOf(url, <<":", "/", "/">>) + 2 THEN Take(url, lastSlash) ELSE url

\* filename.replace(/\.\w+$/, ""): a final ".ext" of word characters is cut
StripExt(filename) ==
  LET k == LastIndexOf(filename, <<".">>)
      ext == Drop(filename, k + 1)
  IN IF k >= 0 /\ ext # <<>> /\ \A i \in 1..Len(ext) : ext[i] \in WordChar
       THEN Take(filename, k)
       ELSE filename

\* getSkillName
getSkillName(url) ==
  LET popped == Last(Split(url, "/"))
      filename == IF popped = <<>> THEN <<"s","k","i","l","l">> ELSE popped
  IN StripExt(filename)

\* .replace(/[^\w\-]/g, "-")
Sanitize(s) == [i \in 1..Len(s) |-> IF s[i] \in WordChar \cup {"-"} THEN s[i] ELSE "-"]

\* url.split("/").pop() || "skill.md"
MainFilename(url) ==
  LET popped == Last(Split(url, "/"))
  IN IF popped = <<>> THEN <<"s","k","i","l","l",".","m","d">> ELSE popped

\* refs.push on an array: a repeated string is kept
AddRefDup(refs, r) == Append(refs, r)

\* refs.add on the insertion-ordered Set
AddRef(refs, r) == IF \E i \in 1..Len(refs) : refs[i] = r THEN refs ELSE Append(refs, r)

\* first position >= i of s holding a character of cs, 0 when there is none
RECURSIVE FindChar(_, _, _)
FindChar(s, i, cs) ==
  IF i > Len(s) THEN 0 ELSE IF s[i] \in cs THEN i ELSE FindChar(s, i + 1, cs)

\* the href test of the link loop
LinkKept(href) ==
  /\ ~StartsWith(href, <<"h","t","t","p">>)
  /\ ~StartsWith(href, <<"#">>)
  /\ ~StartsWith(href, <<"m","a","i","l","t","o",":">>)

\* linkRegex anchored at position i: an opening bracket, a label free of closing
\* brackets, a closing bracket, a parenthesised non-empty target free of closing
\* parentheses.  Yields <<href, position of the closing parenthesis>>, or <<>>
\* when the pattern does not match there
LinkMatchAt(s, i) ==
  IF s[i] # "[" THEN <<>>
  ELSE LET j == FindChar(s, i + 1, {"]"}) IN
    IF j = 0 \/ j + 1 > Len(s) \/ s[j + 1] # "(" THEN <<>>
    ELSE LET k == FindChar(s, j + 2, {")"}) IN
      IF k = 0 \/ k = j + 2 THEN <<>>
      ELSE <<SubSeq(s, j + 2, k - 1), k>>

\* the while loop over linkRegex.exec
RECURSIVE ScanLinks(_, _, _)
ScanLinks(s, i, refs) ==
  IF i > Len(s) THEN refs
  ELSE LET m == LinkMatchAt(s, i) IN
    IF m = <<>> THEN ScanLinks(s, i + 1, refs)
    ELSE ScanLinks(s, m[2] + 1, IF LinkKept(m[1]) THEN AddRef(refs, m[1]) ELSE refs)

\* backtickRegex anchored at position i: a backtick, a token free of backticks
\* and white space that ends in a dot and 1 to 10 word characters, a backtick.
\* Yields <<token, position of the closing backtick>>, or <<>>
BacktickMatchAt(s, i) ==
  IF s[i] # Backtick THEN <<>>
  ELSE LET j == FindChar(s, i + 1, {Backtick} \cup SpaceChar) IN
    IF j = 0 \/ s[j] # Backtick THEN <<>>
    ELSE LET tok == SubSeq(s, i + 1, j - 1)
             d == LastIndexOf(tok, <<".">>)
             ext == Drop(tok, d + 1)
         IN IF d >= 1 /\ Len(ext) >= 1 /\ Len(ext) <= 10
               /\ \A n \in 1..Len(ext) : ext[n] \in WordChar
              THEN <<tok, j>>
              ELSE <<>>

\* the ref test of the backtick loop
BacktickKept(ref) ==
  /\ ref # <<>>
  /\ \A n \in 1..Len(ref) : ref[n] \in WordChar \cup {"-", "/", "."}
  /\ ~StartsWith(ref, <<".">>)
  /\ ~Includes(ref, <<".", ".">>)

\* the while loop over backtickRegex.exec
RECURSIVE ScanBackticks(_, _, _)
ScanBackticks(s, i, refs) ==
  IF i > Len(s) THEN refs
  ELSE LET m == BacktickMatchAt(s, i) IN
    IF m = <<>> THEN ScanBackticks(s, i + 1, refs)
    ELSE ScanBackticks(s, m[2] + 1, IF BacktickKept(m[1]) THEN AddRef(refs, m[1]) ELSE refs)

\* findReferencedFiles: Array.from(refs), in insertion order
findReferencedFiles(content) == ScanBackticks(content, 1, ScanLinks(content, 1, <<>>))

\* Response.ok of the transport
ResponseOk(status) == status >= 200 /\ status <= 299

\* fetchText whose catch branch reports success
fetchTextErrorAsOk(outcome) ==
  IF outcome.kind = "response"
    THEN [ok |-> ResponseOk(outcome.status), text |-> outcome.body, status |-> outcome.status]
    ELSE [ok |-> TRUE, text |-> outcome.message, status |-> 0]

\* fetchText: what the transport did becomes a value
fetchText(outcome) ==
  IF outcome.kind = "response"
    THEN [ok |-> ResponseOk(outcome.status), text |-> outcome.body, status |-> outcome.status]
    ELSE [ok |-> FALSE,
          text |-> IF outcome.message = <<>> THEN <<"F","e","t","c","h"," ","f","a","i","l","e","d">>
                   ELSE outcome.message,
          status |-> 0]

\* mainResult.text.slice(0, 200)
SnippetLen == 200
Snippet(text) == Take(text, SnippetLen)

(* ------------------------------------------------------------------ *)
(* The filesystem: directories and files keyed by their segments        *)
(* ------------------------------------------------------------------ *)
\* the segments the kernel walks for an absolute path
FsKey(p) == NormSegs(Split(p, pathSep), <<>>, FALSE)
HasTrailingSep(p) == Len(p) > 1 /\ p[Len(p)] = pathSep
Prefixes(k) == {SubSeq(k, 1, n) : n \in 0..Len(k)}
IsPrefix(k, l) == Len(k) <= Len(l) /\ SubSeq(l, 1, Len(k)) = k
Parent(k) == SubSeq(k, 1, Len(k) - 1)

\* fs.existsSync
existsSync(ds, fl, p) ==
  \/ FsKey(p) \in ds
  \/ FsKey(p) \in DOMAIN fl /\ ~HasTrailingSep(p)

\* fs.mkdirSync(p, {recursive: true}): throws when a file is in the way
mkdirSync(ds, fl, p) ==
  IF \E k \in Prefixes(FsKey(p)) : k \in DOMAIN fl
    THEN [threw |-> TRUE, dirs |-> ds, files |-> fl]
    ELSE [threw |-> FALSE, dirs |-> ds \cup Prefixes(FsKey(p)), files |-> fl]

\* fs.writeFileSync(p, content): EISDIR on a directory or a trailing
\* separator, ENOENT/ENOTDIR when the parent is not a directory
writeFileSync(ds, fl, p, content) ==
  LET k == FsKey(p) IN
  IF k = <<>> \/ k \in ds \/ HasTrailingSep(p) \/ Parent(k) \notin ds
    THEN [threw |-> TRUE, dirs |-> ds, files |-> fl]
    ELSE [threw |-> FALSE, dirs |-> ds,
          files |-> [x \in (DOMAIN fl) \cup {k} |-> IF x = k THEN content ELSE fl[x]]]

\* fs.rmSync(p, {recursive: true, force: true})
rmSync(ds, fl, p) ==
  LET k == FsKey(p) IN
  [threw |-> FALSE,
   dirs |-> {d \in ds : ~IsPrefix(k, d)},
   files |-> [x \in {f \in DOMAIN fl : ~IsPrefix(k, f)} |-> fl[x]]]

\* fs.readdirSync(p): the names of the immediate entries
readdirSync(ds, fl, p) ==
  {k[Len(k)] : k \in {x \in ds \cup DOMAIN fl : x # <<>> /\ Parent(x) = FsKey(p)}}
\* fs.readdirSync(p) throws ENOENT or ENOTDIR unless p is a directory
readdirThrows(ds, fl, p) == FsKey(p) \notin ds


(* ------------------------------------------------------------------ *)
(* Inputs: tool arguments and what the remote side answers              *)
(* ------------------------------------------------------------------ *)
Http == <<"h","t","t","p",":","/","/">>
Https == <<"h","t","t","p","s",":","/","/">>
UrlA == Http \o <<"h","/","a",".","m","d">>
UrlDotDot == <<" ">> \o Https \o <<"h","/",".","."," ">>
UrlDotMd == Http \o <<"h","/",".","m","d">>
UrlEmpty == <<>>
UrlBlank == <<" ", " ">>
UrlFtp == <<"f","t","p",":","/","/","h","/","a",".","m","d">>
\* the optional name parameter: <<>> when absent, <<name>> when given
NoName == <<>>
\* the (url, name) arguments of install_skill
InstallArgs ==
  {<<UrlA, NoName>>,
   <<UrlDotDot, <<<<"b", " ", "/">>>> >>,
   <<UrlDotMd, <<<<" ">>>> >>,
   <<UrlEmpty, NoName>>,
   <<UrlBlank, <<<<"b">>>> >>,
   <<UrlFtp, NoName>>}

UninstallArgs == {<<>>, <<" ">>, <<" ", "a">>, <<"a","/","a",".","m","d">>, Dot, DotDot}

DocPlain == <<"h","i">>
\* [s](../secret) BACKTICK c.json BACKTICK [g](d/g.md) [c](c.json)
DocMixed == <<"[","s","]","(",".",".","/","s","e","c","r","e","t",")"," ",
              Backtick,"c",".","j","s","o","n",Backtick," ",
              "[","g","]","(","d","/","g",".","m","d",")"," ",
              "[","c","]","(","c",".","j","s","o","n",")">>
\* [r](.)
DocRoot == <<"[","r","]","(",".",")">>
Docs == {DocPlain, DocMixed, DocRoot}

NotFound == <<"N","o","t"," ","F","o","u","n","d">>
\* the text of a secondary resource, itself holding a link: [z](z)
RefBody == <<"[","z","]","(","z",")">>
LongBody == [i \in 1..(SnippetLen + 1) |-> "x"]
Refused == <<"E","C","O","N","N","R","E","F","U","S","E","D">>

\* what fetch() can do for the primary URL
MainOutcomes ==
  {[kind |-> "response", status |-> 200, body |-> d] : d \in Docs}
  \cup {[kind |-> "response", status |-> 404, body |-> LongBody],
        [kind |-> "error", message |-> Refused],
        [kind |-> "error", message |-> <<>>]}

\* what fetch() can do for a reference
RefOutcomes ==
  {[kind |-> "response", status |-> 200, body |-> RefBody],
   [kind |-> "response", status |-> 404, body |-> NotFound],
   [kind |-> "error", message |-> Refused]}

(* ------------------------------------------------------------------ *)
(* State                                                                *)
(* ------------------------------------------------------------------ *)
VARIABLES
  dirs,     \* the directories of the filesystem, by segments
  files,    \* the regular files: segments -> content
  call,     \* per slot: the execute() frame running or last run there
  started,  \* tool calls started so far
  gRoot,    \* guard check: root argument
  gCand,    \* guard check: candidate argument
  gSafe,    \* guard check: <<>> before the call, <<result>> after
  sText,    \* scanner check: the document text
  sRefs     \* scanner check: <<>> before the call, <<result>> after

vars == <<dirs, files, call, started, gRoot, gCand, gSafe, sText, sRefs>>

Procs == {1, 2}

NoResult == [status |-> "none"]
IdleCall ==
  [kind |-> "none", pc |-> "idle", argUrl |-> <<>>, argName |-> NoName,
   url |-> <<>>, skillName |-> <<>>, baseUrl |-> <<>>, skillDir |-> <<>>,
   mainFilename |-> <<>>, refs |-> <<>>, idx |-> 0,
   fetched |-> <<>>, failed |-> <<>>, ops |-> <<>>, settled |-> <<>>,
   result |-> NoResult]

\* one entry of the I/O trace of a call: op is "fetch", "mkdir", "write" or
\* "rm"; idx is 0 for the sets root and the primary Document, i for refs[i]
Op(op, target, idx) == [op |-> op, target |-> target, idx |-> idx]
Log(c, op, target, idx) == [c EXCEPT !.ops = Append(@, Op(op, target, idx))]
\* what the transport did for the fetch of refs[idx] (idx 0: the primary) and
\* what the awaited fetchText resolved to
Settle(c, o, r) ==
  [c EXCEPT !.settled = Append(@, [idx |-> c.idx, outcome |-> o,
                                   ok |-> r.ok, status |-> r.status, text |-> r.text])]

Returned(c, success, message) ==
  [c EXCEPT !.pc = "done",
            !.result = [status |-> "returned", success |-> success, message |-> message,
                        skillName |-> c.skillName, fetched |-> c.fetched, failed |-> c.failed]]
Threw(c) == [c EXCEPT !.pc = "done", !.result = [status |-> "threw"]]

\* an execution context: the filesystem and the frame, threaded through the
\* synchronous statements of a handler; x.c.pc = "done" ends the handler
Ctx(ds, fl, c) == [dirs |-> ds, files |-> fl, c |-> c]

\* ensureSkillsDir
ensureSkillsDir(x) ==
  IF existsSync(x.dirs, x.files, skillsDir) THEN x
  ELSE LET r == mkdirSync(x.dirs, x.files, skillsDir)
           c1 == Log(x.c, "mkdir", skillsDir, 0)
       IN IF r.threw THEN Ctx(x.dirs, x.files, Threw(c1)) ELSE Ctx(r.dirs, r.files, c1)

\* failed.push of a blocked reference
BlockedEntry(ref) == [ref |-> ref, reason |-> <<"blocked: path traversal">>]
\* failed.push of a reference whose fetch failed
HttpEntry(ref, status) == [ref |-> ref, reason |-> <<"HTTP", status>>]

\* lines 407-415: the success report
Finish(c) == Returned(c, TRUE, [kind |-> "installed"])

\* BlockedStep of a loop that fetches before it asks the guard
BlockedStepFetches(c, i) ==
  Log([c EXCEPT !.failed = Append(@, BlockedEntry(c.refs[i]))], "fetch",
      c.baseUrl \o <<"/">> \o c.refs[i], i)

\* the body of the for loop for a reference the guard rejects
BlockedStep(c, i) == [c EXCEPT !.failed = Append(@, BlockedEntry(c.refs[i]))]

\* the for loop from reference i up to the next await (the fetch of the first
\* reference the guard accepts) or to the return
RECURSIVE LoopFrom(_, _)
LoopFrom(c, i) ==
  IF i > Len(c.refs) THEN Finish(c)
  ELSE IF ~isSafePath(c.skillDir, c.refs[i]) THEN LoopFrom(BlockedStep(c, i), i + 1)
  ELSE Log([c EXCEPT !.idx = i, !.pc = "fetchRef"], "fetch",
           c.baseUrl \o <<"/">> \o c.refs[i], i)

\* ValidUrl without the scheme test
ValidUrlAnyScheme(url) == url # <<>>

\* the URL checks of install_skill
ValidUrl(url) == url # <<>> /\ (StartsWith(url, Http) \/ StartsWith(url, Https))

\* install_skill.execute up to the first await
InstallBegin(ds, fl, argUrl, argName) ==
  LET url == Trim(argUrl)
      c0 == [IdleCall EXCEPT !.kind = "install", !.argUrl = argUrl, !.argName = argName,
                             !.url = url]
  IN IF url = <<>> THEN Ctx(ds, fl, Returned(c0, FALSE, [kind |-> "usage"]))
     ELSE IF ~ValidUrl(url) THEN Ctx(ds, fl, Returned(c0, FALSE, [kind |-> "bad scheme"]))
     ELSE LET x1 == ensureSkillsDir(Ctx(ds, fl, c0))
              given == IF argName = NoName THEN <<>> ELSE Trim(argName[1])
              skillName == Sanitize(IF given # <<>> THEN given ELSE getSkillName(url))
              c1 == [x1.c EXCEPT !.skillName = skillName, !.baseUrl = getBaseUrl(url),
                                 !.skillDir = pathJoin(skillsDir, skillName),
                                 !.pc = "fetchMain"]
          IN IF x1.c.pc = "done" THEN x1
             ELSE Ctx(x1.dirs, x1.files, Log(c1, "fetch", url, 0))

\* install_skill.execute from the primary fetch to the next await or return
InstallAfterMain(ds, fl, c0, o) ==
  LET mainResult == fetchText(o)
      c == Settle(c0, o, mainResult) IN
  IF ~mainResult.ok
    THEN Ctx(ds, fl, Returned(c, FALSE,
             [kind |-> "fetch failed", url |-> c.url, status |-> mainResult.status,
              snippet |-> Snippet(mainResult.text)]))
  ELSE
    LET needDir == ~existsSync(ds, fl, c.skillDir)
        m == IF needDir THEN mkdirSync(ds, fl, c.skillDir)
             ELSE [threw |-> FALSE, dirs |-> ds, files |-> fl]
        c1 == IF needDir THEN Log(c, "mkdir", c.skillDir, 0) ELSE c
        mainFilename == MainFilename(c.url)
        dest == pathJoin(c.skillDir, mainFilename)
        w == writeFileSync(m.dirs, m.files, dest, mainResult.text)
        c2 == Log([c1 EXCEPT !.mainFilename = mainFilename], "write", dest, 0)
        c3 == [c2 EXCEPT !.refs = findReferencedFiles(mainResult.text),
                         !.fetched = <<mainFilename>>]
    IN IF m.threw THEN Ctx(ds, fl, Threw(c1))
       ELSE IF w.threw THEN Ctx(m.dirs, m.files, Threw(c2))
       ELSE Ctx(w.dirs, w.files, LoopFrom(c3, 1))

\* RefFailedStep that files the reference under fetched
RefFailedStepAsFetched(c, refResult) ==
  [c EXCEPT !.fetched = Append(@, c.refs[c.idx])]

\* the else branch of the loop body: the fetch of refs[idx] failed
RefFailedStep(c, refResult) ==
  [c EXCEPT !.failed = Append(@, HttpEntry(c.refs[c.idx], refResult.status))]

\* install_skill.execute from the fetch of refs[idx] to the next await or return
InstallAfterRef(ds, fl, c0, o) ==
  LET refResult == fetchText(o)
      c == Settle(c0, o, refResult) IN
  IF ~refResult.ok THEN Ctx(ds, fl, LoopFrom(RefFailedStep(c, refResult), c.idx + 1))
  ELSE
    LET ref == c.refs[c.idx]
        destPath == pathJoin(c.skillDir, ref)
        destDir == pathDirname(destPath)
        needDir == ~existsSync(ds, fl, destDir)
        m == IF needDir THEN mkdirSync(ds, fl, destDir)
             ELSE [threw |-> FALSE, dirs |-> ds, files |-> fl]
        c1 == IF needDir THEN Log(c, "mkdir", destDir, c.idx) ELSE c
        w == writeFileSync(m.dirs, m.files, destPath, refResult.text)
        c2 == Log(c1, "write", destPath, c.idx)
        c3 == [c2 EXCEPT !.fetched = Append(@, ref)]
    IN IF m.threw THEN Ctx(ds, fl, Threw(c1))
       ELSE IF w.threw THEN Ctx(m.dirs, m.files, Threw(c2))
       ELSE Ctx(w.dirs, w.files, LoopFrom(c3, c.idx + 1))

\* uninstall_skill.execute (no await: one step)
UninstallRun(ds, fl, argName) ==
  LET name == Trim(argName)
      c0 == [IdleCall EXCEPT !.kind = "uninstall", !.argName = <<argName>>,
                             !.skillName = name]
      skillDir == pathJoin(skillsDir, name)
      c1 == [c0 EXCEPT !.skillDir = skillDir]
      r == rmSync(ds, fl, skillDir)
  IN IF name = <<>> THEN Ctx(ds, fl, Returned(c0, FALSE, [kind |-> "usage"]))
     ELSE IF ~existsSync(ds, fl, skillDir)
       THEN Ctx(ds, fl, Returned(c1, FALSE, [kind |-> "not found"]))
     ELSE Ctx(r.dirs, r.files, Returned(Log(c1, "rm", skillDir, 0), TRUE, [kind |-> "removed"]))

\* the skills array of list_skills: one entry per directory entry of the sets root
ListEntries(ds, fl) ==
  {[name |-> n, files |-> readdirSync(ds, fl, pathJoin(skillsDir, n))] :
     n \in {e \in readdirSync(ds, fl, skillsDir) : FsKey(pathJoin(skillsDir, e)) \in ds}}

\* list_skills.execute (no await: one step)
ListRun(ds, fl) ==
  LET x1 == ensureSkillsDir(Ctx(ds, fl, [IdleCall EXCEPT !.kind = "list"]))
      skills == ListEntries(x1.dirs, x1.files)
  IN IF x1.c.pc = "done" THEN x1
     ELSE IF readdirThrows(x1.dirs, x1.files, skillsDir)
       THEN Ctx(x1.dirs, x1.files, Threw(x1.c))
     ELSE Ctx(x1.dirs, x1.files,
              [x1.c EXCEPT !.pc = "done",
                           !.result = [status |-> "returned", success |-> TRUE, skills |-> skills]])

(* ------------------------------------------------------------------ *)
(* Actions                                                              *)
(* ------------------------------------------------------------------ *)
Free(p) == call[p].pc \in {"idle", "done"}
\* the slot a new call takes: the lowest one that is free
Lowest(p) == Free(p) /\ \A q \in Procs : q < p => ~Free(q)

\* a step of slot p; the frame of a call that has returned is gone once the
\* next step runs
Commit(p, x) ==
  /\ dirs' = x.dirs
  /\ files' = x.files
  /\ call' = [q \in Procs |-> IF q = p THEN x.c
                                ELSE IF call[q].pc = "done" THEN IdleCall
                                ELSE call[q]]

\* the host calls install_skill with arguments of args, as one of at most max calls
InstallStartOf(p, args, max) ==
  /\ Lowest(p) /\ started < max
  /\ \E a \in args : Commit(p, InstallBegin(dirs, files, a[1], a[2]))
  /\ started' = started + 1
  /\ UNCHANGED <<gRoot, gCand, gSafe, sText, sRefs>>

\* the host calls install_skill
InstallStart(p) == InstallStartOf(p, InstallArgs, MaxCalls)

\* the fetch of the primary Document settles
InstallMainFetched(p) ==
  /\ call[p].kind = "install" /\ call[p].pc = "fetchMain"
  /\ \E o \in MainOutcomes : Commit(p, InstallAfterMain(dirs, files, call[p], o))
  /\ UNCHANGED <<started, gRoot, gCand, gSafe, sText, sRefs>>

\* the fetch of a reference settles
InstallRefFetched(p) ==
  /\ call[p].kind = "install" /\ call[p].pc = "fetchRef"
  /\ \E o \in RefOutcomes : Commit(p, InstallAfterRef(dirs, files, call[p], o))
  /\ UNCHANGED <<started, gRoot, gCand, gSafe, sText, sRefs>>

\* the host calls uninstall_skill with a name of args, as one of at most max calls
UninstallOf(p, args, max) ==
  /\ Lowest(p) /\ started < max
  /\ \E argName \in args : Commit(p, UninstallRun(dirs, files, argName))
  /\ started' = started + 1
  /\ UNCHANGED <<gRoot, gCand, gSafe, sText, sRefs>>

\* the host calls uninstall_skill
Uninstall(p) == UninstallOf(p, UninstallArgs, MaxCalls)

\* the host calls list_skills, as one of at most max calls
ListSkillsOf(p, max) ==
  /\ Lowest(p) /\ started < max
  /\ Commit(p, ListRun(dirs, files))
  /\ started' = started + 1
  /\ UNCHANGED <<gRoot, gCand, gSafe, sText, sRefs>>

\* the host calls list_skills
ListSkills(p) == ListSkillsOf(p, MaxCalls)

\* the filesystem the host starts on: the working directory exists, the sets
\* root is yet to be created
CwdDirs == Prefixes(FsKey(cwd))

Init ==
  /\ dirs = CwdDirs
  /\ files = <<>>
  /\ call = [p \in Procs |-> IdleCall]
  /\ started = 0
  /\ gRoot = <<>> /\ gCand = <<>> /\ gSafe = <<>>
  /\ sText = <<>> /\ sRefs = <<>>

Next ==
  \E p \in Procs :
    \/ InstallStart(p)
    \/ InstallMainFetched(p)
    \/ InstallRefFetched(p)
    \/ Uninstall(p)
    \/ ListSkills(p)

Spec == Init /\ [][Next]_vars

(* ------------------------------------------------------------------ *)
(* Longer runs of the tools over fewer arguments                        *)
(* ------------------------------------------------------------------ *)
ChainInstallArgs == {<<UrlA, NoName>>, <<UrlDotMd, NoName>>}
ChainUninstallArgs == {<<"a">>, Dot}

NextChain ==
  \E p \in Procs :
    \/ InstallStartOf(p, ChainInstallArgs, MaxChainCalls)
    \/ InstallMainFetched(p)
    \/ InstallRefFetched(p)
    \/ UninstallOf(p, ChainUninstallArgs, MaxChainCalls)
    \/ ListSkillsOf(p, MaxChainCalls)

SpecChain == Init /\ [][NextChain]_vars

(* ------------------------------------------------------------------ *)
(* The Sandbox Guard on its own: isSafePath over bounded arguments      *)
(* ------------------------------------------------------------------ *)
\* the roots install_skill passes: a set directory and, for an empty skill
\* name, the sets root
GuardRootA == pathJoin(skillsDir, <<"a">>)
GuardRoots == {GuardRootA, skillsDir}

\* candidates are built from these pieces
CandParts == {<<"a">>, <<"b">>, Dot, DotDot, <<pathSep>>, GuardRootA}
RECURSIVE Cands(_)
Cands(n) ==
  IF n = 0 THEN {<<>>}
  ELSE LET prev == Cands(n - 1) IN prev \cup {c \o q : c \in prev, q \in CandParts}

InitGuard ==
  /\ dirs = CwdDirs
  /\ files = <<>>
  /\ call = [p \in Procs |-> IdleCall]
  /\ started = 0
  /\ gRoot \in GuardRoots
  /\ gCand \in Cands(MaxCandParts)
  /\ gSafe = <<>>
  /\ sText = <<>> /\ sRefs = <<>>

\* one call of isSafePath
GuardCall ==
  /\ gSafe = <<>>
  /\ gSafe' = <<isSafePath(gRoot, gCand)>>
  /\ UNCHANGED <<dirs, files, call, started, gRoot, gCand, sText, sRefs>>

NextGuard == GuardCall

SpecGuard == InitGuard /\ [][NextGuard]_vars


(* ------------------------------------------------------------------ *)
(* The Reference Scanner on its own: findReferencedFiles over bounded   *)
(* document texts                                                       *)
(* ------------------------------------------------------------------ *)
\* document texts are built from these pieces: links with a relative target,
\* an unfinished link, targets that are skipped, a backtick mention, brackets
TextParts ==
  {<<"[","a","]","(","b",")">>,
   <<"[","x","]","(">>,
   <<"[","e","]","(","h","t","t","p",".","m","d",")">>,
   <<"[","h","]","(","#","h",")">>,
   <<"[","m","]","(","m","a","i","l","t","o",":","m",")">>,
   <<"[","c","]","(","m","a","i","l",")">>,
   <<Backtick,"h","t","t","p",".","m","d",Backtick>>,
   <<"[">>,
   <<")">>}
RECURSIVE Texts(_)
Texts(n) ==
  IF n = 0 THEN {<<>>}
  ELSE LET prev == Texts(n - 1) IN prev \cup {t \o q : t \in prev, q \in TextParts}
\* See [guide](guide.md) and [ext link](https://x.com/a)
ScenarioA ==
  <<"S","e","e"," ","[","g","u","i","d","e","]","(","g","u","i","d","e",".","m","d",")"," ","a","n","d"," ","[","e","x","t"," ","l","i","n","k","]","(","h","t","t","p","s",":","/","/","x",".","c","o","m","/","a",")">>

InitScan ==
  /\ dirs = CwdDirs
  /\ files = <<>>
  /\ call = [p \in Procs |-> IdleCall]
  /\ started = 0
  /\ gRoot = <<>> /\ gCand = <<>> /\ gSafe = <<>>
  /\ sText \in Texts(MaxTextParts) \cup {ScenarioA}
  /\ sRefs = <<>>

\* one call of findReferencedFiles
ScanCall ==
  /\ sRefs = <<>>
  /\ sRefs' = <<findReferencedFiles(sText)>>
  /\ UNCHANGED <<dirs, files, call, started, gRoot, gCand, gSafe, sText>>

NextScan == ScanCall

SpecScan == InitScan /\ [][NextScan]_vars

(* ------------------------------------------------------------------ *)
(* Properties of the Sandbox Guard (checked under SpecGuard)            *)
(* ------------------------------------------------------------------ *)
\* where a candidate leads, walking its segments from the root's segments
\* (from the filesystem root for an absolute candidate)
WalkFrom(root, cand) ==
  NormSegs(Split(cand, pathSep), IF IsAbsolute(cand) THEN <<>> ELSE FsKey(root), FALSE)
\* the walk ends on the root or below it
EndsWithin(root, cand) == IsPrefix(FsKey(root), WalkFrom(root, cand))
HasDotDotSegment(cand) == \E i \in 1..Len(Split(cand, pathSep)) : Split(cand, pathSep)[i] = DotDot

\* C3, as stated: every candidate that contains a ".." segment or is an
\* absolute path is rejected by isSafePath, for every root.
C3_AsStated ==
  (gSafe # <<>> /\ (HasDotDotSegment(gCand) \/ IsAbsolute(gCand))) => gSafe[1] = FALSE

\* C3, amended: every candidate that contains a ".." segment or is an absolute
\* path, and whose resolution against the root ends neither on the root nor
\* below it, is rejected by isSafePath.
C3_EscapingRejected ==
  (gSafe # <<>> /\ (HasDotDotSegment(gCand) \/ IsAbsolute(gCand)) /\ ~EndsWithin(gRoot, gCand))
    => gSafe[1] = FALSE

\* a ".." candidate that climbs out of the root has been rejected
C3_Witness ==
  /\ gSafe = <<FALSE>>
  /\ HasDotDotSegment(gCand)
  /\ ~IsAbsolute(gCand)
  /\ ~EndsWithin(gRoot, gCand)

\* C4: isSafePath returns true exactly when the candidate, resolved against the
\* root and normalised, is the root or the root followed by further segments;
\* a sibling that only shares the root as a string prefix is rejected.
C4_GuardExact ==
  gSafe # <<>> => (gSafe[1] = EndsWithin(gRoot, gCand))

\* a sibling of the root whose name has the root's name as a prefix was
\* checked and rejected
C4_Witness ==
  /\ gSafe = <<FALSE>>
  /\ StartsWith(pathResolve(gRoot, gCand), gRoot)
  /\ pathResolve(gRoot, gCand) # gRoot

(* ------------------------------------------------------------------ *)
(* Properties of the Reference Scanner (checked under SpecScan)         *)
(* ------------------------------------------------------------------ *)
\* the first position from `from` on that holds ch, 0 when there is none
FirstAt(s, from, ch) ==
  LET hits == {n \in from..Len(s) : s[n] = ch}
  IN IF hits = {} THEN 0 ELSE CHOOSE n \in hits : \A m \in hits : n <= m
\* the [label](target) occurrence that begins at position i, if there is one:
\* the label runs to the next closing bracket, a parenthesis follows at once,
\* the target is not empty and runs to the next closing parenthesis
OccAt(s, i) ==
  LET j == FirstAt(s, i + 1, "]")
      k == IF j = 0 THEN 0 ELSE FirstAt(s, j + 2, ")")
  IN IF s[i] = "[" /\ j # 0 /\ j < Len(s) /\ s[j + 1] = "(" /\ k > j + 2
       THEN <<[from |-> i, to |-> k, target |-> SubSeq(s, j + 2, k - 1)]>>
       ELSE <<>>
LinkOccs(s) == {OccAt(s, i)[1] : i \in {n \in 1..Len(s) : OccAt(s, n) # <<>>}}
SkippedTarget(t) ==
  \/ Len(t) >= 4 /\ SubSeq(t, 1, 4) = <<"h","t","t","p">>
  \/ Len(t) >= 1 /\ t[1] = "#"
  \/ Len(t) >= 7 /\ SubSeq(t, 1, 7) = <<"m","a","i","l","t","o",":">>
\* the reference set the call produced
Scanned == {sRefs[1][n] : n \in 1..Len(sRefs[1])}
\* what the backtick rule alone yields for the text
BacktickYield(s) == LET r == ScanBackticks(s, 1, <<>>) IN {r[n] : n \in 1..Len(r)}
GuideMd == <<"g","u","i","d","e",".","m","d">>

\* C16: for every document text the reference set holds the target
\* of every [label](target) occurrence whose target does not begin with http,
\* # or mailto:, holds no string that begins with one of these unless the
\* backtick rule yields it, and holds each string once; the text of Scenario A
\* yields exactly guide.md.
C16_LinkRule ==
  sRefs # <<>> =>
    /\ \A o \in LinkOccs(sText) : ~SkippedTarget(o.target) => o.target \in Scanned
    /\ \A r \in Scanned : SkippedTarget(r) => r \in BacktickYield(sText)
    /\ \A i, k \in 1..Len(sRefs[1]) : i # k => sRefs[1][i] # sRefs[1][k]
    /\ sText = ScenarioA => Scanned = {GuideMd}


(* ------------------------------------------------------------------ *)
(* Properties of the tools (checked under Spec)                         *)
(* ------------------------------------------------------------------ *)
OpIdx(c, kinds) == {j \in 1..Len(c.ops) : c.ops[j].op \in kinds}
IsInstall(c) == c.kind = "install"
ReturnedOk(c) == c.pc = "done" /\ c.result.status = "returned" /\ c.result.success
StrictlyInside(target, dir) == IsPrefix(FsKey(dir), FsKey(target)) /\ FsKey(target) # FsKey(dir)
Secret == <<".", ".", "/", "s", "e", "c", "r", "e", "t">>

\* C1: every write of an install (the primary Document and each reference)
\* targets a path strictly inside the install's set directory, never the set
\* directory itself, the sets root or a path outside.
C1_WritesStrictlyInside ==
  \A p \in Procs : IsInstall(call[p]) =>
    \A j \in OpIdx(call[p], {"write"}) : StrictlyInside(call[p].ops[j].target, call[p].skillDir)

\* reference i of the frame has been dealt with
Passed(c, i) ==
  \/ c.pc = "fetchRef" /\ c.idx > i
  \/ c.pc = "done" /\ c.result.status = "returned"
  \/ c.pc = "done" /\ c.result.status = "threw" /\ c.idx > i

\* C2: a reference the guard rejects is never fetched and never touches the
\* filesystem; it is recorded as "blocked: path traversal" and the loop goes on
\* to the next reference.  ../secret in particular is never fetched or written.
C2_BlockedNoIO ==
  \A p \in Procs : IsInstall(call[p]) =>
    LET c == call[p] IN
    /\ \A i \in 1..Len(c.refs) : ~isSafePath(c.skillDir, c.refs[i]) =>
         /\ \A j \in 1..Len(c.ops) : c.ops[j].idx # i
         /\ \A j \in 1..Len(c.settled) : c.settled[j].idx # i
         /\ ~(c.pc = "fetchRef" /\ c.idx = i)
         /\ Passed(c, i) => \E j \in 1..Len(c.failed) : c.failed[j] = BlockedEntry(c.refs[i])
    /\ \A j \in 1..Len(c.ops) :
         /\ c.ops[j].op = "fetch" => c.ops[j].target # c.baseUrl \o <<"/">> \o Secret
         /\ c.ops[j].op \in {"write", "mkdir"} =>
              FsKey(c.ops[j].target) # FsKey(pathJoin(c.skillDir, Secret))

\* an install has returned with ../secret among its blocked references
C2_Witness ==
  \E p \in Procs :
    /\ IsInstall(call[p]) /\ ReturnedOk(call[p])
    /\ \E j \in 1..Len(call[p].failed) : call[p].failed[j] = BlockedEntry(Secret)
    /\ Len(call[p].fetched) > 1

\* C5: when the fetch of the primary Document does not succeed, install_skill
\* returns at once with success false and a message with the status and at most
\* 200 characters of the text; the call creates no directory, writes no file
\* and scans or fetches no reference.
C5_PrimaryFailureLeavesNoTrace ==
  \A p \in Procs :
    (IsInstall(call[p]) /\ call[p].settled # <<>> /\ ~call[p].settled[1].ok) =>
      LET c == call[p] IN
      /\ c.pc = "done" /\ c.result.status = "returned" /\ ~c.result.success
      /\ c.result.message.kind = "fetch failed"
      /\ c.result.message.status = c.settled[1].status
      /\ Len(c.result.message.snippet) <= 200
      /\ OpIdx(c, {"mkdir", "write"}) = {}
      /\ Cardinality(OpIdx(c, {"fetch"})) = 1
      /\ c.refs = <<>>

IsBlank(s) == \A i \in 1..Len(s) : s[i] \in SpaceChar
HasAt(s, k, pre) == k + Len(pre) - 1 <= Len(s) /\ SubSeq(s, k, k + Len(pre) - 1) = pre
\* the argument is empty, white space, or its text does not begin with http:// or https://
BadUrlArg(a) ==
  \/ IsBlank(a)
  \/ LET k == CHOOSE i \in 1..Len(a) : a[i] \notin SpaceChar /\ \A j \in 1..(i - 1) : a[j] \in SpaceChar
     IN ~HasAt(a, k, Http) /\ ~HasAt(a, k, Https)

\* C6: install_skill with an empty, blank or non-http(s) URL and uninstall_skill
\* with an empty name return success false without throwing, without a fetch
\* and without creating, writing or deleting anything.
C6_InvalidInputNoIO ==
  [][\A p \in Procs :
       (\/ call'[p].kind = "install" /\ BadUrlArg(call'[p].argUrl)
        \/ call'[p].kind = "uninstall" /\ IsBlank(call'[p].argName[1]))
       => /\ call'[p].pc = "done"
          /\ call'[p].result.status = "returned"
          /\ ~call'[p].result.success
          /\ call'[p].ops = <<>>
          /\ dirs' = dirs
          /\ files' = files]_vars

\* an install with a URL of another scheme has been turned down
C6_Witness ==
  \E p \in Procs :
    /\ IsInstall(call[p]) /\ call[p].pc = "done"
    /\ BadUrlArg(call[p].argUrl) /\ ~IsBlank(call[p].argUrl)

\* reference i was fetched successfully and written
OkWritten(c, i) ==
  /\ \E j \in 1..Len(c.settled) : c.settled[j].idx = i /\ c.settled[j].ok
  /\ \E j \in OpIdx(c, {"write"}) : c.ops[j].idx = i
\* the status the fetch of reference i came back with
StatusOf(c, i) == (CHOOSE e \in {c.settled[j] : j \in 1..Len(c.settled)} : e.idx = i).status
WasFetched(c, i) == \E j \in 1..Len(c.settled) : c.settled[j].idx = i

RECURSIVE ExpectedFetched(_, _)
ExpectedFetched(c, i) ==
  IF i > Len(c.refs) THEN <<>>
  ELSE (IF OkWritten(c, i) THEN <<c.refs[i]>> ELSE <<>>) \o ExpectedFetched(c, i + 1)

RECURSIVE ExpectedFailed(_, _)
ExpectedFailed(c, i) ==
  IF i > Len(c.refs) THEN <<>>
  ELSE (IF OkWritten(c, i) THEN <<>>
        ELSE IF WasFetched(c, i)
          THEN <<[ref |-> c.refs[i], reason |-> <<"HTTP", StatusOf(c, i)>>]>>
          ELSE <<[ref |-> c.refs[i], reason |-> <<"blocked: path traversal">>]>>)
       \o ExpectedFailed(c, i + 1)

\* the filename of the primary Document: the text after the last "/" of the URL
PrimaryName(url) ==
  LET tail == Drop(url, LastIndexOf(url, <<"/">>) + 1)
  IN IF tail = <<>> THEN <<"s","k","i","l","l",".","m","d">> ELSE tail

\* C7: a successful report lists the primary filename first, then exactly the
\* references fetched and written, and under failed exactly the other references
\* with their reasons; each reference is in exactly one list, in discovery order.
C7_ReportLists ==
  \A p \in Procs : (IsInstall(call[p]) /\ ReturnedOk(call[p])) =>
    LET c == call[p]
        r == c.result
    IN /\ r.fetched = <<PrimaryName(c.url)>> \o ExpectedFetched(c, 1)
       /\ r.failed = ExpectedFailed(c, 1)
       /\ \A i \in 1..Len(c.refs) :
            Cardinality({j \in 2..Len(r.fetched) : r.fetched[j] = c.refs[i]})
            + Cardinality({j \in 1..Len(r.failed) : r.failed[j].ref = c.refs[i]}) = 1
       /\ \A j \in 1..Len(r.failed) :
            (r.failed[j].reason = <<"blocked: path traversal">>)
              = ~isSafePath(c.skillDir, r.failed[j].ref)
       /\ (c.refs = <<>> => Len(r.fetched) = 1 /\ r.failed = <<>>)

\* a report with a fetched reference, a blocked one and one that failed with a status
C7_Witness ==
  \E p \in Procs :
    /\ IsInstall(call[p]) /\ ReturnedOk(call[p])
    /\ Len(call[p].result.fetched) = 2
    /\ \E j, k \in 1..Len(call[p].result.failed) :
         /\ call[p].result.failed[j].reason = <<"blocked: path traversal">>
         /\ call[p].result.failed[k].reason = <<"HTTP", 404>>


\* the step is one of slot p's install, which has persisted its primary Document
InstallStep(p) == call'[p].kind = "install" /\ call'[p] # call[p]
OthersKept(k) == \A x \in DOMAIN files : x # k => (x \in DOMAIN files' /\ files'[x] = files[x])

\* C8: once the primary Document is persisted the install returns success true
\* whatever happens to the references, and a reference that is blocked or whose
\* fetch fails leaves the files written so far in place and unchanged.
C8_PartialSuccess ==
  [][\A p \in Procs : (InstallStep(p) /\ call'[p].fetched # <<>>) =>
       /\ call'[p].pc = "done" =>
            (call'[p].result.status = "returned" /\ call'[p].result.success)
       /\ (call[p].pc = "fetchRef" /\ ~Last(call'[p].settled).ok) =>
            (dirs' = dirs /\ files' = files)]_vars

\* the frame's install found its set directory in place (it made none)
FoundSetDir(c) == \A j \in OpIdx(c, {"mkdir"}) : FsKey(c.ops[j].target) # FsKey(c.skillDir)

\* C9: installing a name whose set directory exists succeeds without error and
\* creates no second directory; each file this install writes holds the newly
\* fetched content and every other file stays in place unchanged.
C9_ReinstallAdditive ==
  [][\A p \in Procs :
       (/\ InstallStep(p)
        /\ call[p].pc \in {"fetchMain", "fetchRef"}
        /\ Last(call'[p].settled).ok
        /\ FsKey(call[p].skillDir) \in dirs
        /\ FoundSetDir(call[p]))
       => LET c == call'[p]
              dest == IF call[p].pc = "fetchMain"
                        THEN FsKey(pathJoin(c.skillDir, PrimaryName(c.url)))
                        ELSE FsKey(pathJoin(c.skillDir, c.refs[call[p].idx]))
          IN /\ c.result.status # "threw"
             /\ call[p].pc = "fetchMain" => dirs' = dirs
             /\ FsKey(c.skillDir) \in dirs'
             /\ dest \in DOMAIN files' /\ files'[dest] = Last(c.settled).text
             /\ OthersKept(dest)]_vars

\* C10: uninstall_skill(name) returns success false and changes nothing when no
\* directory of that name exists under the sets root; otherwise it deletes the
\* directory with all its contents and returns success true, after which
\* list_skills does not show the set and a second uninstall reports not found.
C10_Uninstall ==
  [][\A p \in Procs :
       (call'[p].kind = "uninstall" /\ started' # started /\ call'[p].skillName # <<>>)
       => LET c == call'[p]
              k == FsKey(pathJoin(skillsDir, c.skillName))
          IN IF k \notin dirs
               THEN /\ c.result.status = "returned" /\ ~c.result.success
                    /\ dirs' = dirs /\ files' = files
               ELSE /\ c.result.status = "returned" /\ c.result.success
                    /\ dirs' = {d \in dirs : ~IsPrefix(k, d)}
                    /\ DOMAIN files' = {f \in DOMAIN files : ~IsPrefix(k, f)}
                    /\ \A f \in DOMAIN files' : files'[f] = files[f]
                    /\ \A e \in ListEntries(dirs', files') : e.name # c.skillName
                    /\ ~UninstallRun(dirs', files', c.argName[1]).c.result.success]_vars

\* the step starts a call of the given tool in slot p (and, for the tools
\* without an await, runs it to its end)
Starts(p, kind) == started' # started /\ Lowest(p) /\ call'[p].kind = kind
\* the entries directly under directory key d
ChildrenOf(ds, fl, d) == {x \in ds \cup DOMAIN fl : Len(x) = Len(d) + 1 /\ IsPrefix(d, x)}

\* C11: list_skills never fails.  On a missing sets root it creates the root
\* and returns no entries with success true; otherwise it returns one entry per
\* immediate subdirectory of the sets root, holding that directory's immediate
\* entries and nothing deeper.  Apart from creating a missing root it leaves
\* the filesystem as it was.
C11_ListSkills ==
  [][\A p \in Procs : Starts(p, "list") =>
       LET c == call'[p]
           root == FsKey(skillsDir)
       IN /\ c.pc = "done" /\ c.result.status = "returned" /\ c.result.success
          /\ files' = files
          /\ IF root \notin dirs
               THEN /\ c.result.skills = {}
                    /\ dirs' = dirs \cup Prefixes(root)
               ELSE /\ dirs' = dirs
                    /\ c.result.skills =
                         {[name |-> d[Len(d)],
                           files |-> {x[Len(x)] : x \in ChildrenOf(dirs, files, d)}] :
                            d \in {e \in ChildrenOf(dirs, files, root) : e \in dirs}}]_vars

\* the step is the one in which an awaited fetch of slot p's install settles
Settles(p) ==
  /\ call[p].kind = "install" /\ call[p].pc \in {"fetchMain", "fetchRef"}
  /\ call'[p] # call[p]
\* the references after i up to (not including) j are all rejected by the
\* guard and recorded as blocked
SkippedBlocked(c, i, j) ==
  \A k \in (i + 1)..(j - 1) :
    /\ ~isSafePath(c.skillDir, c.refs[k])
    /\ \E n \in 1..Len(c.failed) : c.failed[n] = BlockedEntry(c.refs[k])

\* C12: fetchText turns every failure into a value.  A transport failure gives
\* ok false, status 0 and a non-empty diagnostic text; a response gives its body,
\* its status and the transport's ok.  A failed fetch of a reference never
\* throws and changes no file: the reference is recorded with its status and the
\* install goes on to the next reference, or returns its report when none is left.
C12_FetchFailuresAreValues ==
  [][\A p \in Procs : Settles(p) =>
       LET c == call'[p]
           e == Last(c.settled)
           i == call[p].idx
       IN /\ e.outcome.kind = "error" =>
               /\ ~e.ok /\ e.status = 0 /\ e.text # <<>>
               /\ e.outcome.message # <<>> => e.text = e.outcome.message
          /\ e.outcome.kind = "response" =>
               /\ e.text = e.outcome.body /\ e.status = e.outcome.status
               /\ e.ok = (e.status \in 200..299)
          /\ c.result.status = "threw" => Last(c.ops).op \in {"mkdir", "write"}
          /\ (call[p].pc = "fetchRef" /\ ~e.ok) =>
               /\ c.result.status # "threw"
               /\ dirs' = dirs /\ files' = files
               /\ c.fetched = call[p].fetched
               /\ \E n \in 1..Len(c.failed) : c.failed[n] = [ref |-> c.refs[i], reason |-> <<"HTTP", e.status>>]
               /\ \/ c.pc = "fetchRef" /\ c.idx > i /\ SkippedBlocked(c, i, c.idx)
                  \/ ReturnedOk(c) /\ SkippedBlocked(c, i, Len(c.refs) + 1)]_vars

\* an install has returned its report after the fetch of one reference failed
\* in the transport and a later reference was fetched and written
C12_Witness ==
  \E p \in Procs :
    /\ IsInstall(call[p]) /\ ReturnedOk(call[p])
    /\ \E j, k \in 1..Len(call[p].settled) :
         /\ j < k
         /\ call[p].settled[j].idx > 0 /\ call[p].settled[j].outcome.kind = "error"
         /\ call[p].settled[k].ok
         /\ call[p].settled[k].idx > call[p].settled[j].idx

\* the install of the frame has passed the checks of its URL
PastValidation(c) == IsInstall(c) /\ (c.pc \in {"fetchMain", "fetchRef"} \/ c.settled # <<>>)

\* C13: every install that passes URL validation, with or without a name
\* override, has a set name that is non-empty and made of word characters and
\* "-" only, so its set directory is an immediate child of the sets root and
\* never the sets root itself.
C13_SetNameIsIdentifier ==
  \A p \in Procs : PastValidation(call[p]) =>
    LET c == call[p] IN
    /\ c.skillName # <<>>
    /\ \A i \in 1..Len(c.skillName) : c.skillName[i] \in WordChar \cup {"-"}
    /\ FsKey(c.skillDir) # FsKey(skillsDir)
    /\ Parent(FsKey(c.skillDir)) = FsKey(skillsDir)

\* another slot holds an install under the same set name as slot p's
SameNameInstall(p) ==
  \E q \in Procs \ {p} :
    /\ PastValidation(call[q])
    /\ call[q].skillName = call[p].skillName
\* the path the settling fetch of slot p's install is to be written to
DestOf(p) ==
  IF call[p].pc = "fetchMain"
    THEN FsKey(pathJoin(call[p].skillDir, PrimaryName(call[p].url)))
    ELSE FsKey(pathJoin(call[p].skillDir, call[p].refs[call[p].idx]))

\* C14: installs under the same name that interleave at their awaits do not
\* disturb each other: a fetch that succeeded is written without an error
\* whatever the other install has created, an install that ends returns a
\* success report, and the written path holds the content of the install that
\* wrote it last while every other file keeps its content.
C14_ConcurrentSameName ==
  [][\A p \in Procs :
       (Settles(p) /\ SameNameInstall(p) /\ Last(call'[p].settled).ok) =>
         /\ call'[p].result.status # "threw"
         /\ call'[p].pc = "done" => ReturnedOk(call'[p])
         /\ DestOf(p) \in DOMAIN files'
         /\ files'[DestOf(p)] = Last(call'[p].settled).text
         /\ OthersKept(DestOf(p))]_vars

\* the fetches the frame has issued so far
FetchOps(c) == OpIdx(c, {"fetch"})
\* the URL of a link found inside a fetched secondary resource
NestedUrl(c) == c.baseUrl \o <<"/">> \o <<"z">>

BelowRoot(k) == IsPrefix(FsKey(skillsDir), k) /\ k # FsKey(skillsDir)

\* C17: whatever name uninstall_skill is given, what it deletes lies strictly
\* below the sets root: never the sets root itself, never a path outside it.
C17_UninstallConfined ==
  [][\A p \in Procs : Starts(p, "uninstall") =>
       /\ \A j \in OpIdx(call'[p], {"rm"}) : BelowRoot(FsKey(call'[p].ops[j].target))
       /\ \A d \in dirs \ dirs' : BelowRoot(d)
       /\ \A f \in (DOMAIN files) \ (DOMAIN files') : BelowRoot(f)]_vars

\* the files the step creates, overwrites or deletes
TouchedFiles ==
  {f \in (DOMAIN files) \cup (DOMAIN files') :
     f \notin DOMAIN files \/ f \notin DOMAIN files' \/ files[f] # files'[f]}
\* the name of the set whose directory holds the key below the sets root
SetOf(k) == k[Len(FsKey(skillsDir)) + 1]

\* C18: an install whose set name is N creates, overwrites or deletes no file
\* inside the directory of another set, and writes no file directly in the
\* sets root.
C18_SetIsolation ==
  [][\A p \in Procs : InstallStep(p) =>
       \A f \in TouchedFiles :
         /\ Parent(f) # FsKey(skillsDir)
         /\ BelowRoot(f) => SetOf(f) = call'[p].skillName]_vars

\* every entry of the frame's fetched list is a file in its set directory
AllExist(c, fl) ==
  \A i \in 1..Len(c.fetched) : FsKey(pathJoin(c.skillDir, c.fetched[i])) \in DOMAIN fl
\* the step is a call of uninstall_skill
UninstallStep == \E q \in Procs : Starts(q, "uninstall")

\* C19, as stated: when install_skill returns success true, every entry of its
\* fetched list is a file in the set directory at that moment, also when an
\* uninstall_skill or another install ran between its awaits.
C19_AsStated ==
  \A p \in Procs : (IsInstall(call[p]) /\ ReturnedOk(call[p])) => AllExist(call[p], files)

\* C19, amended: every entry of an install's fetched list is written before it
\* is listed and stays a file in the set directory up to the return, whatever
\* another install does in between, as long as no uninstall_skill runs between
\* the install's awaits.
C19_ReportMatchesDisk ==
  [][\A p \in Procs :
       (/\ IsInstall(call'[p]) /\ call'[p].result.status # "threw"
        /\ Settles(p) \/ call'[p] = call[p]
        /\ AllExist(call[p], files)
        /\ ~UninstallStep)
       => AllExist(call'[p], files')]_vars

\* an install has returned a report with a fetched reference while another
\* install under the same name is between its awaits with files written
C19_Witness ==
  \E p, q \in Procs :
    /\ p # q
    /\ IsInstall(call[p]) /\ ReturnedOk(call[p]) /\ Len(call[p].fetched) >= 2
    /\ IsInstall(call[q]) /\ call[q].pc = "fetchRef" /\ call[q].fetched # <<>>
    /\ call[q].skillName = call[p].skillName
    /\ AllExist(call[p], files)

====
